---- MODULE Spec2Model ----
(***************************************************************************)
(* Model of app.py, the Streamlit subscription manager.                    *)
(*                                                                         *)
(* The persisted collection is the JSON file data/subscriptions.json.      *)
(* Every script run loads it (load_json), renders the three tabs, handles  *)
(* at most one widget event (cancel / delete button of tab2, the form of   *)
(* tab3), saves the whole list (save_json) and reruns.                     *)
(*                                                                         *)
(* Texts are sequences of one-character strings, so that strftime,         *)
(* strptime, json.dump and json.load are modelled by what they do.         *)
(* Costs are whole cents.                                                  *)
(***************************************************************************)
EXTENDS Integers, Sequences, FiniteSets, TLC

VARIABLES
    today,      \* the clock: date.today(), a date [y, m, d]
    file,       \* data/subscriptions.json: [exists, text]
    event,      \* the widget event handled by the last script run
    everIds,    \* history: every id a record of the file ever had
    recycled,   \* history: the last step gave a new record the id of an earlier one
    wpc,        \* position of a save_json call that is under way
    pending,    \* the items that save_json is writing
    saved,      \* history: the last list a save_json call wrote completely
    p_start,    \* next_renewal_from: its argument start_str
    p_freq,     \* next_renewal_from: its argument freq_key
    p_today,    \* next_renewal_from: the value of date.today()
    p_d,        \* next_renewal_from: the local d
    p_pc,       \* next_renewal_from: position ("call", "loop", "done")
    p_ret,      \* next_renewal_from: the returned value
    n_cost,     \* the cost columns of a row: r["cost"], in cents
    n_freq,     \* the cost columns of a row: r.get("frequency", "Mensuel")
    n_monthly,  \* the cost columns of a row: monthly_cost, in cents
    n_annual,   \* the cost columns of a row: annual_cost, in cents
    n_pc        \* the cost columns of a row: position ("call", "monthly", "done")

svars == <<today, file, event, everIds, recycled>>
cvars == <<wpc, pending, saved>>
pvars == <<p_start, p_freq, p_today, p_d, p_pc, p_ret>>
nvars == <<n_cost, n_freq, n_monthly, n_annual, n_pc>>
vars == <<today, file, event, everIds, recycled, wpc, pending, saved,
          p_start, p_freq, p_today, p_d, p_pc, p_ret,
          n_cost, n_freq, n_monthly, n_annual, n_pc>>

-----------------------------------------------------------------------------
(* Bounds of the model.                                                    *)

\* The largest number of records the file holds.
MaxSubs == 2
\* The number of times the clock advances over a behaviour.
MaxTicks == 1
\* The largest number of calendar steps a projection is compared against.
MaxK == 24

-----------------------------------------------------------------------------
(* Texts.                                                                  *)

DigitChar == <<"0", "1", "2", "3", "4", "5", "6", "7", "8", "9">>

IsDigit(c) == \E n \in 1..10 : DigitChar[n] = c

DigitVal(c) == (CHOOSE n \in 1..10 : DigitChar[n] = c) - 1

\* The value of a text of digits.
RECURSIVE NumVal(_)
NumVal(s) ==
    IF s = <<>> THEN 0
    ELSE 10 * NumVal(SubSeq(s, 1, Len(s) - 1)) + DigitVal(s[Len(s)])

AllDigits(s) == \A i \in 1..Len(s) : IsDigit(s[i])

\* n written with exactly w digits, zero padded (%Y with w = 4, %m and %d with w = 2).
RECURSIVE Padded(_, _)
Padded(n, w) ==
    IF w = 0 THEN <<>>
    ELSE Append(Padded(n \div 10, w - 1), DigitChar[(n % 10) + 1])

\* The positions of "-" in a text.
Dashes(s) == {i \in 1..Len(s) : s[i] = "-"}

-----------------------------------------------------------------------------
(* Calendar dates: datetime.date and dateutil.relativedelta.               *)

MkDate(y, m, d) == [y |-> y, m |-> m, d |-> d]

\* Python's None where a date is expected (no date has year 0: MINYEAR is 1).
None == MkDate(0, 0, 0)

\* Python's None where a text is expected; json.dump writes it as null.
null == <<"null">>

IsLeap(y) == (y % 4 = 0 /\ y % 100 # 0) \/ y % 400 = 0

DaysInMonth(y, m) ==
    IF m = 2 THEN (IF IsLeap(y) THEN 29 ELSE 28)
    ELSE IF m \in {4, 6, 9, 11} THEN 30 ELSE 31

\* date.__le__ and date.__lt__
DateLE(a, b) ==
    \/ a.y < b.y
    \/ a.y = b.y /\ a.m < b.m
    \/ a.y = b.y /\ a.m = b.m /\ a.d <= b.d

DateLT(a, b) == DateLE(a, b) /\ a # b

\* The day after a.
NextDay(a) ==
    IF a.d < DaysInMonth(a.y, a.m) THEN MkDate(a.y, a.m, a.d + 1)
    ELSE IF a.m < 12 THEN MkDate(a.y, a.m + 1, 1)
    ELSE MkDate(a.y + 1, 1, 1)

\* a + timedelta(days=n)
RECURSIVE AddDays(_, _)
AddDays(a, n) == IF n = 0 THEN a ELSE AddDays(NextDay(a), n - 1)

\* The number of days from a to b (a <= b).
RECURSIVE DaysBetween(_, _)
DaysBetween(a, b) == IF ~DateLT(a, b) THEN 0 ELSE 1 + DaysBetween(NextDay(a), b)

\* d.strftime("%Y-%m-%d")
Strftime(a) == Padded(a.y, 4) \o <<"-">> \o Padded(a.m, 2) \o <<"-">> \o Padded(a.d, 2)

\* datetime.strptime(s, "%Y-%m-%d").date(): a date, or None where Python raises.
Strptime(s) ==
    LET ds == Dashes(s) IN
    IF Cardinality(ds) # 2 THEN None
    ELSE
        LET i == CHOOSE i \in ds : \A j \in ds : i <= j
            j == CHOOSE j \in ds : \A k \in ds : k <= j
            ys == SubSeq(s, 1, i - 1)
            ms == SubSeq(s, i + 1, j - 1)
            dd == SubSeq(s, j + 1, Len(s))
        IN  IF ~(Len(ys) = 4 /\ Len(ms) \in 1..2 /\ Len(dd) \in 1..2
                 /\ AllDigits(ys) /\ AllDigits(ms) /\ AllDigits(dd)) THEN None
            ELSE IF ~(NumVal(ys) >= 1 /\ NumVal(ms) \in 1..12) THEN None
            ELSE IF ~(NumVal(dd) \in 1..DaysInMonth(NumVal(ys), NumVal(ms))) THEN None
            ELSE MkDate(NumVal(ys), NumVal(ms), NumVal(dd))

\* FREQUENCES: the keys, "facteur" as a divisor and "delta" in years and months.
FreqKeys == {"Mensuel", "Trimestriel", "Annuel"}

FREQUENCES ==
    [k \in FreqKeys |->
        CASE k = "Mensuel"     -> [div |-> 1,  years |-> 0, months |-> 1]
          [] k = "Trimestriel" -> [div |-> 3,  years |-> 0, months |-> 3]
          [] k = "Annuel"      -> [div |-> 12, years |-> 1, months |-> 0]]

\* FREQUENCES.get(freq_key, FREQUENCES["Mensuel"])
FreqGet(freq_key) ==
    IF freq_key \in FreqKeys THEN FREQUENCES[freq_key] ELSE FREQUENCES["Mensuel"]

\* d + relativedelta(years=.., months=..): the day is clipped to the month's length.
AddDelta(a, delta) ==
    LET mm == (a.m - 1) + delta.months
        y  == a.y + delta.years + (mm \div 12)
        m  == (mm % 12) + 1
        dm == DaysInMonth(y, m)
    IN  MkDate(y, m, IF a.d > dm THEN dm ELSE a.d)

\* The loop of next_renewal_from: while d <= today: d += delta.
RECURSIVE Walk(_, _, _)
Walk(d, delta, now) == IF DateLE(d, now) THEN Walk(AddDelta(d, delta), delta, now) ELSE d

\* next_renewal_from(start_str, freq_key) when date.today() is now.
next_renewal_from(start_str, freq_key, now) ==
    LET d == Strptime(start_str) IN
    IF d = None THEN null
    ELSE Strftime(Walk(d, FreqGet(freq_key), now))

-----------------------------------------------------------------------------
(* next_renewal_from, statement by statement.                              *)

Txt(y, m, d) == Strftime(MkDate(y, m, d))

\* Arguments start_str: texts strftime wrote, and two that strptime refuses.
StartStrs ==
    { Txt(2023, 6, 1), Txt(2024, 1, 15), Txt(2024, 1, 31), Txt(2023, 11, 30),
      Txt(2024, 2, 29), Txt(2024, 3, 10), Txt(2024, 3, 11), Txt(2023, 12, 31),
      <<"2", "0", "2", "4", "-", "0", "2", "-", "3", "0">>, <<"N", "a", "T">> }

\* Arguments freq_key: the keys of FREQUENCES and one that is not a key.
FreqArgs == FreqKeys \cup {"Hebdomadaire"}

\* Values of date.today().
Todays ==
    { MkDate(2024, 3, 10), MkDate(2024, 2, 28), MkDate(2024, 2, 29),
      MkDate(2025, 3, 1), MkDate(2024, 12, 31) }

ProjInit ==
    /\ p_start \in StartStrs
    /\ p_freq \in FreqArgs
    /\ p_today \in Todays
    /\ p_d = None
    /\ p_pc = "call"
    /\ p_ret = null

\* d = datetime.strptime(start_str, "%Y-%m-%d").date()
ProjParse ==
    /\ p_pc = "call"
    /\ Strptime(p_start) # None
    /\ p_d' = Strptime(p_start)
    /\ p_pc' = "loop"
    /\ UNCHANGED <<p_start, p_freq, p_today, p_ret>>

\* except Exception: return None
ProjParseFails ==
    /\ p_pc = "call"
    /\ Strptime(p_start) = None
    /\ p_ret' = null
    /\ p_pc' = "done"
    /\ UNCHANGED <<p_start, p_freq, p_today, p_d>>

\* The loop test with < for <=.
ProjLoopTestStrict(d, now) == DateLT(d, now)

\* The test of the while loop.
ProjLoopTest(d, now) == DateLE(d, now)

\* while d <= today: d += delta
ProjStep ==
    /\ p_pc = "loop"
    /\ ProjLoopTest(p_d, p_today)
    /\ p_d' = AddDelta(p_d, FreqGet(p_freq))
    /\ UNCHANGED <<p_start, p_freq, p_today, p_pc, p_ret>>

\* return d.strftime("%Y-%m-%d")
ProjReturn ==
    /\ p_pc = "loop"
    /\ ~ProjLoopTest(p_d, p_today)
    /\ p_ret' = Strftime(p_d)
    /\ p_pc' = "done"
    /\ UNCHANGED <<p_start, p_freq, p_today, p_d>>

ProjNext ==
    \/ ProjParse /\ UNCHANGED <<svars, cvars, nvars>>
    \/ ProjParseFails /\ UNCHANGED <<svars, cvars, nvars>>
    \/ ProjStep /\ UNCHANGED <<svars, cvars, nvars>>
    \/ ProjReturn /\ UNCHANGED <<svars, cvars, nvars>>

-----------------------------------------------------------------------------
(* The cost columns of to_dataframe: monthly_cost and annual_cost.         *)

\* The largest cost of the range of costs the model tries, in cents.
MaxCost == 40

\* Values of r["cost"], in cents: a range from 0, and three prices.
CostArgs == (0..MaxCost) \cup {1000, 1599, 12000}

\* The rounding that drops the fraction of a cent.
MonthlyCostFloor(cost, freq_key) == {cost \div FreqGet(freq_key).div}

\* round(r["cost"] * FREQUENCES.get(...)["facteur"], 2), in cents: the nearest
\* cent. The product is a binary float: where cost / div lies exactly between two
\* cents it falls a hair to one side or the other, so either cent can come out.
MonthlyCost(cost, freq_key) ==
    LET div == FreqGet(freq_key).div
        q == cost \div div
        r == cost % div
    IN  IF 2 * r < div THEN {q}
        ELSE IF 2 * r > div THEN {q + 1}
        ELSE {q, q + 1}

\* (df["monthly_cost"] * 12).round(2), in cents: twelve times a whole number of cents.
AnnualCost(monthly) == monthly * 12

\* The cost columns are not being computed.
NormIdle ==
    /\ n_cost = 0
    /\ n_freq = "Mensuel"
    /\ n_monthly = 0
    /\ n_annual = 0
    /\ n_pc = "done"

NormInit ==
    /\ n_cost \in CostArgs
    /\ n_freq \in FreqArgs
    /\ n_monthly = 0
    /\ n_annual = 0
    /\ n_pc = "call"

\* df["monthly_cost"] = df.apply(lambda r: round(...), axis=1)
NormMonthly ==
    /\ n_pc = "call"
    /\ n_monthly' \in MonthlyCost(n_cost, n_freq)
    /\ n_pc' = "monthly"
    /\ UNCHANGED <<n_cost, n_freq, n_annual>>

\* df["annual_cost"] = (df["monthly_cost"] * 12).round(2)
NormAnnual ==
    /\ n_pc = "monthly"
    /\ n_annual' = AnnualCost(n_monthly)
    /\ n_pc' = "done"
    /\ UNCHANGED <<n_cost, n_freq, n_monthly>>

-----------------------------------------------------------------------------
(* The JSON file: ensure_store, load_json, save_json.                      *)

\* One token of the file's text: "[", "]", "," or one serialised object.
Tok(t, v) == [t |-> t, v |-> v]

LBracket == Tok("[", <<>>)
RBracket == Tok("]", <<>>)
Comma == Tok(",", <<>>)

\* json.dump(items, f): the text written, token by token.
RECURSIVE json_dump_body(_)
json_dump_body(items) ==
    IF items = <<>> THEN <<>>
    ELSE IF Len(items) = 1 THEN <<Tok("obj", items[1])>>
    ELSE <<Tok("obj", items[1]), Comma>> \o json_dump_body(Tail(items))

json_dump(items) == <<LBracket>> \o json_dump_body(items) \o <<RBracket>>

\* Whether text is the text of a JSON list: json.load raises JSONDecodeError otherwise.
json_valid(text) ==
    /\ Len(text) >= 2
    /\ text[1].t = "["
    /\ text[Len(text)].t = "]"
    /\ \A i \in 2..(Len(text) - 1) :
          text[i].t = (IF i % 2 = 0 THEN "obj" ELSE ",")
    /\ (Len(text) > 2 => Len(text) % 2 = 1)

\* json.load(f) of a valid text: the objects in order.
json_load(text) ==
    [k \in 1..((Len(text) - 1) \div 2) |-> text[2 * k].v]

NoFile == [exists |-> FALSE, text |-> <<>>]

\* ensure_store(): the file afterwards.
ensure_store(f) ==
    IF ~f.exists THEN [exists |-> TRUE, text |-> json_dump(<<>>)] ELSE f

\* load_json(): the list read from file f (after ensure_store).
load_json(f) == json_load(ensure_store(f).text)

\* save_json(items): the file afterwards.
save_json(items) == [exists |-> TRUE, text |-> json_dump(items)]

\* Whether load_json() returns (rather than raises) on file f.
Loadable(f) == json_valid(ensure_store(f).text)

-----------------------------------------------------------------------------
(* to_dataframe and the views of the dashboard.                            *)

Range(q) == {q[i] : i \in 1..Len(q)}

HasColumn(items, c) == \E i \in 1..Len(items) : c \in DOMAIN items[i]

\* s.get("id", s.get("name")) and r.get("id", r["name"])
KeyOf(s) == IF "id" \in DOMAIN s THEN <<"id", s.id>> ELSE <<"name", s.name>>

\* Not a Time: what pd.to_datetime(..., errors="coerce") gives for an unparsable text.
NaT == None

\* pd.to_datetime(text, errors="coerce").dt.date
to_datetime(text) == Strptime(text)

\* The "status" cell of a record's row.
StatusCell(items, s) ==
    IF ~HasColumn(items, "status") THEN "active"
    ELSE IF "status" \in DOMAIN s THEN s.status ELSE "NaN"

\* str(NaN): the text of a cell that a record leaves empty in a column others fill.
NaNText == <<"n", "a", "n">>

\* str(r.get("start_date", date.today())): the default is taken when no record has
\* the column; a record without the field in a column that exists holds NaN.
StartDateArg(items, s, now) ==
    IF ~HasColumn(items, "start_date") THEN Strftime(now)
    ELSE IF "start_date" \in DOMAIN s THEN s.start_date ELSE NaNText

\* The "next_renewal" cell of a record's row, before the conversion to a date.
NextRenewalCell(items, s, now) ==
    IF ~HasColumn(items, "next_renewal")
    THEN next_renewal_from(StartDateArg(items, s, now),
                           IF "frequency" \in DOMAIN s THEN s.frequency ELSE "Mensuel",
                           now)
    ELSE IF "next_renewal" \in DOMAIN s THEN s.next_renewal ELSE null

\* to_dataframe(items): one row per record, in order.
to_dataframe(items, now) ==
    [i \in 1..Len(items) |->
        [ key          |-> KeyOf(items[i]),
          name         |-> items[i].name,
          status       |-> StatusCell(items, items[i]),
          next_renewal |-> to_datetime(NextRenewalCell(items, items[i], now)) ]]

\* df_active = df[df["status"] == "active"]
df_active(df) == SelectSeq(df, LAMBDA r : r.status = "active")

\* The test of renew_soon: next_renewal <= now + 7 days (NaT compares false).
RenewSoonTest(r, now) ==
    r.next_renewal # NaT /\ DateLE(r.next_renewal, AddDays(now, 7))

\* renew_soon = df_active[next_renewal <= now + pd.Timedelta(days=7)]
renew_soon(df, now) == SelectSeq(df_active(df), LAMBDA r : RenewSoonTest(r, now))

-----------------------------------------------------------------------------
(* The handlers of tab2 (cancel, delete) and tab3 (the form add_sub).      *)

\* The row shows the delete button whatever the status.
RowButtonAlwaysDel(r) == "del"

\* Which button the row of r shows: the branch taken at "if r['status'] == 'active'".
RowButton(r) == IF r.status = "active" THEN "cancel" ELSE "del"

\* The cancel that also clears the stored renewal date.
CancelInClearing(subs, key) ==
    [i \in 1..Len(subs) |->
        IF KeyOf(subs[i]) = key
        THEN [subs[i] EXCEPT !.status = "cancelled", !.next_renewal = null]
        ELSE subs[i]]

\* for s in subscriptions: if sid == key: s["status"] = "cancelled"; break
CancelIn(subs, key) ==
    IF \E i \in 1..Len(subs) : KeyOf(subs[i]) = key
    THEN LET i == CHOOSE i \in 1..Len(subs) :
                    /\ KeyOf(subs[i]) = key
                    /\ \A j \in 1..(i - 1) : KeyOf(subs[j]) # key
         IN  [subs EXCEPT ![i] =
                [f \in (DOMAIN subs[i]) \cup {"status"} |->
                    IF f = "status" THEN "cancelled" ELSE subs[i][f]]]
    ELSE subs

\* The delete that filters on the status instead of the key.
DeleteInAllCancelled(subs, key) == SelectSeq(subs, LAMBDA s : s.status # "cancelled")

\* subscriptions[:] = [s for s in subscriptions if s.get("id", s.get("name")) != key]
DeleteIn(subs, key) == SelectSeq(subs, LAMBDA s : KeyOf(s) # key)

\* str.strip() of a text.
RECURSIVE LStrip(_)
LStrip(s) == IF s # <<>> /\ s[1] = " " THEN LStrip(Tail(s)) ELSE s

RECURSIVE RStrip(_)
RStrip(s) ==
    IF s # <<>> /\ s[Len(s)] = " " THEN RStrip(SubSeq(s, 1, Len(s) - 1)) ELSE s

Strip(s) == RStrip(LStrip(s))

\* x_custom.strip() if x_custom else x_choice
CustomOr(custom, choice) == IF custom # <<>> THEN Strip(custom) ELSE choice

\* The validation without its test of the cost.
FormInvalidNoCost(name, category, cost) == name = <<>> \/ category = <<>>

\* if not name or not category or cost <= 0
FormInvalid(name, category, cost) == name = <<>> \/ category = <<>> \/ cost <= 0

\* max([s.get("id", 0) for s in subs] + [0]) + 1
RECURSIVE MaxId(_)
MaxId(subs) ==
    IF subs = <<>> THEN 0
    ELSE LET h == IF "id" \in DOMAIN subs[1] THEN subs[1].id ELSE 0
             t == MaxId(Tail(subs))
         IN  IF h > t THEN h ELSE t

\* The id taken from the number of records.
NewIdByCount(subs) == Len(subs) + 1

\* The smallest id no record of the list has.
NewIdFirstFree(subs) ==
    CHOOSE n \in 1..(Len(subs) + 1) :
        /\ \A s \in {subs[i] : i \in 1..Len(subs)} : s.id # n
        /\ \A m \in 1..(n - 1) : \E s \in {subs[i] : i \in 1..Len(subs)} : s.id = m

NewId(subs) == MaxId(subs) + 1

\* datetime.now().strftime("%Y-%m-%d %H:%M:%S"); the clock of the model counts days.
StrfNow(now) == Strftime(now) \o <<" ", "0", "0", ":", "0", "0", ":", "0", "0">>

\* The dict "new" of the form's else branch.
NewRecord(subs, name, category, cost, frequency, start_date, payment_method, notes, now) ==
    [ id             |-> NewId(subs),
      name           |-> name,
      category       |-> category,
      cost           |-> cost,
      frequency      |-> frequency,
      start_date     |-> Strftime(start_date),
      next_renewal   |-> next_renewal_from(Strftime(start_date), frequency, now),
      payment_method |-> payment_method,
      notes          |-> notes,
      status         |-> "active",
      created_at     |-> StrfNow(now) ]

-----------------------------------------------------------------------------
(* The script runs: one action per widget event.                           *)

\* The day the model starts on.
Epoch == MkDate(2024, 1, 31)

\* The step of the clock between two script runs, in days.
TickDays == 31

\* What the selectboxes of the form add_sub hold.
ServiceChoice == <<"N", "e", "t", "f", "l", "i", "x">>
CategoryChoice == <<"V", "i", "d", "e", "o">>
PaymentChoice == <<"P", "a", "y", "P", "a", "l">>
Notes == <<>>
\* st.selectbox("Fréquence", list(FREQUENCES.keys())): the keys the model submits.
FormFreqs == {"Mensuel", "Annuel"}
\* st.date_input: today by default ("today"), or a date the user picks ("past").
StartDate(pick, now) == IF pick = "today" THEN now ELSE MkDate(2023, 11, 5)

\* The price typed in the form, in cents.
Price == 1599

\* What the user submits: the custom name, the custom category, the cost, the
\* frequency and the start date. The first set passes the validation; the others
\* have a blank name, a blank category, and no cost.
FormFills ==
    [name_custom : {<<>>}, category_custom : {<<>>}, cost : {Price},
     frequency : {"Annuel"}, pick : {"today"}]
    \cup [name_custom : {<<>>}, category_custom : {<<" ", "T", "V">>}, cost : {Price},
          frequency : {"Mensuel"}, pick : {"past"}]
    \cup [name_custom : {<<" ">>}, category_custom : {<<>>}, cost : {Price},
          frequency : {"Mensuel"}, pick : {"today"}]
    \cup [name_custom : {<<>>}, category_custom : {<<" ", " ">>}, cost : {Price},
          frequency : {"Mensuel"}, pick : {"today"}]
    \cup [name_custom : {<<>>}, category_custom : {<<>>}, cost : {0},
          frequency : {"Mensuel"}, pick : {"today"}]

NoEvent == [widget |-> "none", outcome |-> "none"]

IdsOf(subs) == {subs[i].id : i \in {j \in 1..Len(subs) : "id" \in DOMAIN subs[j]}}

Init ==
    /\ today = Epoch
    /\ file = NoFile
    /\ event = NoEvent
    /\ everIds = {}
    /\ recycled = FALSE
    /\ wpc = "idle"
    /\ pending = <<>>
    /\ saved = <<>>
    /\ p_start = Txt(2024, 1, 15)
    /\ p_freq = "Mensuel"
    /\ p_today = Epoch
    /\ p_d = None
    /\ p_pc = "done"
    /\ p_ret = null
    /\ NormIdle

\* Time passes between two script runs.
Tick ==
    /\ DaysBetween(Epoch, today) < MaxTicks * TickDays
    /\ today' = AddDays(today, TickDays)
    /\ UNCHANGED <<file, event, everIds>>
    /\ recycled' = FALSE

\* A script run with no widget event: the page is loaded and rendered.
View ==
    /\ Loadable(file)
    /\ file' = ensure_store(file)
    /\ event' = NoEvent
    /\ UNCHANGED <<today, everIds>>
    /\ recycled' = FALSE

\* A script run with the button "cancel_<key>" of row i pressed.
ClickCancel(i) ==
    /\ Loadable(file)
    /\ LET subscriptions == load_json(file)
           df == to_dataframe(subscriptions, today)
       IN  /\ i \in 1..Len(df)
           /\ IF RowButton(df[i]) = "cancel"
              THEN /\ file' = save_json(CancelIn(subscriptions, df[i].key))
                   /\ event' = [widget |-> "cancel", outcome |-> "saved"]
              ELSE /\ file' = ensure_store(file)
                   /\ event' = [widget |-> "cancel", outcome |-> "no button"]
    /\ UNCHANGED <<today, everIds>>
    /\ recycled' = FALSE

\* A script run with the button "del_<key>" of row i pressed.
ClickDelete(i) ==
    /\ Loadable(file)
    /\ LET subscriptions == load_json(file)
           df == to_dataframe(subscriptions, today)
       IN  /\ i \in 1..Len(df)
           /\ IF RowButton(df[i]) = "del"
              THEN /\ file' = save_json(DeleteIn(subscriptions, df[i].key))
                   /\ event' = [widget |-> "del", outcome |-> "saved"]
              ELSE /\ file' = ensure_store(file)
                   /\ event' = [widget |-> "del", outcome |-> "no button"]
    /\ UNCHANGED <<today, everIds>>
    /\ recycled' = FALSE

\* A script run with the form add_sub submitted.
SubmitForm(fill) ==
    /\ Loadable(file)
    /\ LET name == CustomOr(fill.name_custom, ServiceChoice)
           category == CustomOr(fill.category_custom, CategoryChoice)
           cost == fill.cost
           frequency == fill.frequency
           start_date == StartDate(fill.pick, today)
           subs == load_json(file)
       IN  IF FormInvalid(name, category, cost)
           THEN /\ file' = ensure_store(file)
                /\ event' = [widget |-> "add_sub", outcome |-> "error"]
                /\ recycled' = FALSE
                /\ UNCHANGED everIds
           ELSE /\ Len(subs) < MaxSubs
                /\ NewId(subs) <= MaxSubs + 1
                /\ file' = save_json(Append(subs,
                              NewRecord(subs, name, category, cost, frequency, start_date,
                                        PaymentChoice, Notes, today)))
                /\ event' = [widget |-> "add_sub", outcome |-> "saved"]
                /\ everIds' = everIds \cup {NewId(subs)}
                /\ recycled' = (NewId(subs) \in everIds)
    /\ UNCHANGED today

Next ==
    \/ Tick /\ UNCHANGED <<cvars, pvars, nvars>>
    \/ View /\ UNCHANGED <<cvars, pvars, nvars>>
    \/ \E i \in 1..MaxSubs : ClickCancel(i) /\ UNCHANGED <<cvars, pvars, nvars>>
    \/ \E i \in 1..MaxSubs : ClickDelete(i) /\ UNCHANGED <<cvars, pvars, nvars>>
    \/ \E fill \in FormFills : SubmitForm(fill) /\ UNCHANGED <<cvars, pvars, nvars>>

Spec == Init /\ [][Next]_vars

\* The specification of next_renewal_from alone; the loop is not starved.
ProjStart ==
    /\ ProjInit
    /\ today = Epoch
    /\ file = NoFile
    /\ event = NoEvent
    /\ everIds = {}
    /\ recycled = FALSE
    /\ wpc = "idle"
    /\ pending = <<>>
    /\ saved = <<>>
    /\ NormIdle

SpecProject == ProjStart /\ [][ProjNext]_vars /\ WF_vars(ProjNext)

-----------------------------------------------------------------------------
(* save_json, statement by statement, with the process able to die in it.  *)

\* The lists a handler hands to save_json, given the list it loaded.
SaveArgs(subs, now) ==
    { CancelIn(subs, to_dataframe(subs, now)[i].key) :
        i \in {j \in 1..Len(subs) : RowButton(to_dataframe(subs, now)[j]) = "cancel"} }
    \cup
    { DeleteIn(subs, to_dataframe(subs, now)[i].key) :
        i \in {j \in 1..Len(subs) : RowButton(to_dataframe(subs, now)[j]) = "del"} }
    \cup
    { Append(subs, NewRecord(subs, ServiceChoice, CategoryChoice, Price, f, now,
                             PaymentChoice, Notes, now)) :
        f \in (IF Len(subs) < MaxSubs /\ NewId(subs) <= MaxSubs + 1 THEN FormFreqs ELSE {}) }

\* open(DATA_FILE, "w"): the file afterwards (mode "w" truncates it).
OpenW(f) == [exists |-> TRUE, text |-> <<>>]

\* with open(DATA_FILE, "w", encoding="utf-8") as f:
SaveOpen ==
    /\ wpc = "idle"
    /\ Loadable(file)
    /\ \E items \in SaveArgs(load_json(file), today) :
          /\ pending' = items
          /\ file' = OpenW(file)
    /\ wpc' = "dump"
    /\ UNCHANGED <<today, event, everIds, recycled, saved>>

\* json.dump(items, f, ...): the next piece of text reaches the file.
SaveWrite ==
    /\ wpc = "dump"
    /\ Len(file.text) < Len(json_dump(pending))
    /\ file' = [file EXCEPT !.text = Append(@, json_dump(pending)[Len(@) + 1])]
    /\ UNCHANGED <<today, event, everIds, recycled, wpc, pending, saved>>

\* The with block ends: the file is closed, save_json returns.
SaveClose ==
    /\ wpc = "dump"
    /\ Len(file.text) = Len(json_dump(pending))
    /\ wpc' = "idle"
    /\ saved' = pending
    /\ pending' = <<>>
    /\ UNCHANGED <<today, file, event, everIds, recycled>>

\* The process dies, or a write raises, inside save_json; the next script run starts.
SaveCrash ==
    /\ wpc = "dump"
    /\ wpc' = "idle"
    /\ pending' = <<>>
    /\ UNCHANGED <<today, file, event, everIds, recycled, saved>>

CrashNext ==
    \/ SaveOpen /\ UNCHANGED <<pvars, nvars>>
    \/ SaveWrite /\ UNCHANGED <<pvars, nvars>>
    \/ SaveClose /\ UNCHANGED <<pvars, nvars>>
    \/ SaveCrash /\ UNCHANGED <<pvars, nvars>>

SpecCrash == Init /\ [][CrashNext]_vars

-----------------------------------------------------------------------------
(* The claims.                                                             *)

\* The collection a script run loads now, and after the step.
Subs == load_json(file)
SubsAfter == load_json(file')

Rows == to_dataframe(Subs, today)

Last(q) == q[Len(q)]

\* q without its element at position i.
Without(q, i) == SubSeq(q, 1, i - 1) \o SubSeq(q, i + 1, Len(q))

\* C1: a record is never removed while it is active: every active record of the
\* collection is still in it after any step, and a press of "del" on the row of
\* an active record leaves the collection as it was.
C1_NoDeleteWhileActive ==
    [][ /\ \A s \in Range(Subs) :
              s.status = "active" => \E t \in Range(SubsAfter) : t.id = s.id
        /\ \A i \in 1..Len(Rows) :
              (ClickDelete(i) /\ Subs[i].status = "active") => SubsAfter = Subs
      ]_vars

\* A press of "del" on an active record's row was handled and the record is there.
C1_Witness ==
    /\ event = [widget |-> "del", outcome |-> "no button"]
    /\ \E s \in Range(Subs) : s.status = "active"
    /\ \E s \in Range(Subs) : s.status = "cancelled"

\* C2: no two records of the persisted collection have the same id.
C2_UniqueIds ==
    \A i, j \in 1..Len(Subs) : i # j => Subs[i].id # Subs[j].id

\* The file holds two records after a record was deleted and another created.
C2_Witness ==
    /\ Len(Subs) = 2
    /\ Cardinality(everIds) = 3
    /\ event = [widget |-> "add_sub", outcome |-> "saved"]

\* A step that appends a record: the form was saved.
Created == event'.widget = "add_sub" /\ event'.outcome = "saved" /\ file' # file

\* C3 as stated: the id a create assigns was never the id of a record before.
C3_IdNeverReused ==
    [][Created => Last(SubsAfter).id \notin everIds]_vars

\* C3 amended: the id a create assigns is the largest id of the collection plus
\* one, so it is no id of the collection; it is the id of an earlier record
\* exactly when a record with a larger id than all that remain was deleted.
C3_IdAboveExisting ==
    [][Created =>
          /\ Last(SubsAfter).id = MaxId(Subs) + 1
          /\ \A s \in Range(Subs) : s.id < Last(SubsAfter).id
          /\ (Last(SubsAfter).id \in everIds) <=> (\E n \in everIds : n > MaxId(Subs))
      ]_vars

\* A create was given the id of a deleted record, beside a record that stayed.
C3_Witness ==
    /\ event = [widget |-> "add_sub", outcome |-> "saved"]
    /\ Len(Subs) = 2
    /\ recycled

\* C4: after creation a record changes only by its status going from active to
\* cancelled: a record of the collection after a step is a record of the
\* collection before it, or that record cancelled, or a new record that is active.
C4_OnlyCancelMutates ==
    [][ \A t \in Range(SubsAfter) :
          IF t.id \in IdsOf(Subs)
          THEN \E s \in Range(Subs) :
                  /\ s.id = t.id
                  /\ \/ t = s
                     \/ s.status = "active" /\ t = [s EXCEPT !.status = "cancelled"]
          ELSE t.status = "active"
      ]_vars

\* A cancel was saved: a cancelled record and an active one are in the file.
C4_Witness ==
    /\ event = [widget |-> "cancel", outcome |-> "saved"]
    /\ \E s \in Range(Subs) : s.status = "cancelled"
    /\ \E s \in Range(Subs) : s.status = "active"

\* C5: a form submitted with an empty name, an empty category or a cost <= 0
\* leaves the collection as it was and gives no id.
C5_InvalidFormRejected ==
    [][ \A fill \in FormFills :
            ( /\ SubmitForm(fill)
              /\ \/ Strip(fill.name_custom) = <<>> /\ fill.name_custom # <<>>
                 \/ Strip(fill.category_custom) = <<>> /\ fill.category_custom # <<>>
                 \/ fill.cost <= 0 )
            => /\ SubsAfter = Subs
               /\ everIds' = everIds
               /\ event'.outcome = "error"
      ]_vars

\* A form was rejected while the file held a record.
C5_Witness ==
    /\ event = [widget |-> "add_sub", outcome |-> "error"]
    /\ Len(Subs) >= 1

\* C6 as stated: every row of the dataframe has a next_renewal after today.
C6_RenewalAfterToday ==
    \A i \in 1..Len(Rows) :
        Rows[i].next_renewal # NaT /\ DateLT(today, Rows[i].next_renewal)

\* C7 as stated: what the next load finds is the list of the last save_json
\* call that returned, whole.
C7_SaveAtomic ==
    wpc = "idle" => (Loadable(file) /\ load_json(file) = saved)

CalendarStep(freq) ==
    CASE freq = "Mensuel"     -> [years |-> 0, months |-> 1]
      [] freq = "Trimestriel" -> [years |-> 0, months |-> 3]
      [] freq = "Annuel"      -> [years |-> 1, months |-> 0]

\* start after k calendar steps, taken one after the other.
RECURSIVE Stepped(_, _, _)
Stepped(start, step, k) ==
    IF k = 0 THEN start ELSE AddDelta(Stepped(start, step, k - 1), step)

\* next_renewal_from has returned for a valid start date and a known frequency.
ProjDone == p_pc = "done" /\ Strptime(p_start) # None /\ p_freq \in FreqKeys

\* The returned date is after today, is start after k steps, and is the first such.
ProjFirstAfter ==
    /\ p_ret # null
    /\ DateLT(p_today, Strptime(p_ret))
    /\ \E k \in 0..MaxK :
          /\ Strptime(p_ret) = Stepped(Strptime(p_start), CalendarStep(p_freq), k)
          /\ k > 0 => DateLE(Stepped(Strptime(p_start), CalendarStep(p_freq), k - 1), p_today)

ProjCase(start, freq, now) ==
    p_pc = "done" /\ p_start = start /\ p_freq = freq /\ p_today = now

\* C9 as stated: the projection is the first candidate after today, and Monthly
\* from 2024-01-15 with today 2024-03-10 gives 2024-04-15.
C9_ProjectionAsStated ==
    /\ ProjDone => ProjFirstAfter
    /\ ProjCase(Txt(2024, 1, 15), "Mensuel", MkDate(2024, 3, 10)) => p_ret = Txt(2024, 4, 15)
    /\ ProjCase(Txt(2023, 6, 1), "Annuel", MkDate(2024, 3, 10)) => p_ret = Txt(2024, 6, 1)

\* C9 amended: next_renewal_from returns, and for a valid start date and a known
\* frequency the date it returns is after today, is the start date after k >= 0
\* calendar steps and is the first such candidate; Monthly from 2024-01-15 with
\* today 2024-03-10 gives 2024-03-15, Annual from 2023-06-01 gives 2024-06-01.
C9_Projection ==
    /\ <>(p_pc = "done")
    /\ [](ProjDone => ProjFirstAfter)
    /\ [](ProjCase(Txt(2024, 1, 15), "Mensuel", MkDate(2024, 3, 10))
            => p_ret = Txt(2024, 3, 15))
    /\ [](ProjCase(Txt(2023, 6, 1), "Annuel", MkDate(2024, 3, 10))
            => p_ret = Txt(2024, 6, 1))

\* Monthly from 2024-01-31 has walked over February: the day was clipped to 29.
C9_Witness ==
    /\ ProjCase(Txt(2024, 1, 31), "Mensuel", MkDate(2024, 3, 10))
    /\ p_ret = Txt(2024, 3, 29)

\* C10 as stated: renew_soon holds exactly the active rows whose next_renewal
\* is in [today, today + 7].
C10_UpcomingWindow ==
    renew_soon(Rows, today) =
        SelectSeq(Rows, LAMBDA r :
            /\ r.status = "active"
            /\ r.next_renewal # NaT
            /\ DateLE(today, r.next_renewal)
            /\ DateLE(r.next_renewal, AddDays(today, 7)))

-----------------------------------------------------------------------------
(* Files written before the records had all their fields.                  *)

\* The largest number of records of such a file.
MaxLegacy == 2

\* A start date in a format strptime refuses.
BadStart == <<"0", "5", "/", "1", "1", "/", "2", "0", "2", "3">>

\* The records of these files, by the fields they have beside the base:
\*   "plain"    start_date
\*   "badstart" start_date, which does not parse
\*   "nostart"  nothing
\*   "full"     start_date, next_renewal, status (active)
\*   "closed"   start_date, which does not parse, and status (cancelled)
LegacyShapes == {"plain", "badstart", "nostart", "full", "closed"}

LegacyRecord(shape, id) ==
    LET base == [ id        |-> id,
                  name      |-> ServiceChoice,
                  category  |-> CategoryChoice,
                  cost      |-> Price,
                  frequency |-> "Mensuel" ]
    IN  CASE shape = "plain"    -> base @@ [start_date |-> Txt(2023, 11, 5)]
          [] shape = "badstart" -> base @@ [start_date |-> BadStart]
          [] shape = "nostart"  -> base
          [] shape = "full"     -> base @@ [start_date |-> Txt(2023, 11, 5),
                                            next_renewal |-> Txt(2024, 2, 5),
                                            status |-> "active"]
          [] shape = "closed"   -> base @@ [start_date |-> BadStart,
                                            status |-> "cancelled"]

\* The lists these files hold: records of any shapes, with ids 1, 2, ...
LegacyLists ==
    UNION { { [i \in 1..n |-> LegacyRecord(shapes[i], i)] : shapes \in [1..n -> LegacyShapes] }
            : n \in 0..MaxLegacy }

LegacyInit ==
    /\ today = Epoch
    /\ \E items \in LegacyLists :
          /\ file = save_json(items)
          /\ everIds = IdsOf(items)
    /\ event = NoEvent
    /\ recycled = FALSE
    /\ wpc = "idle"
    /\ pending = <<>>
    /\ saved = <<>>
    /\ p_start = Txt(2024, 1, 15)
    /\ p_freq = "Mensuel"
    /\ p_today = Epoch
    /\ p_d = None
    /\ p_pc = "done"
    /\ p_ret = null
    /\ NormIdle

SpecLegacy == LegacyInit /\ [][Next]_vars

\* C11 as stated: a record without a status field has the status active in its
\* row, is among the active rows, and its row shows cancel, not delete.
C11_MissingStatusIsActive ==
    \A i \in 1..Len(Subs) :
        "status" \notin DOMAIN Subs[i] =>
            /\ Rows[i].status = "active"
            /\ \E r \in Range(df_active(Rows)) : r.key = Rows[i].key
            /\ RowButton(Rows[i]) = "cancel"

HasStart(s) == "start_date" \in DOMAIN s
HasNext(s) == "next_renewal" \in DOMAIN s
InRenewSoon(i) == \E r \in Range(renew_soon(Rows, today)) : r.key = Rows[i].key

\* C12 as stated: a record whose start_date does not parse or is absent makes the
\* projection return None, gets no next_renewal from it, and is not in renew_soon.
C12_NoDateFromBadStart ==
    \A i \in 1..Len(Subs) :
        (~HasNext(Subs[i]) /\ (~HasStart(Subs[i]) \/ Strptime(Subs[i].start_date) = None)) =>
            /\ next_renewal_from(StartDateArg(Subs, Subs[i], today),
                                 Subs[i].frequency, today) = null
            /\ Rows[i].next_renewal = NaT
            /\ ~InRenewSoon(i)

-----------------------------------------------------------------------------
(* The cost columns alone.                                                 *)

NormStart ==
    /\ NormInit
    /\ today = Epoch
    /\ file = NoFile
    /\ event = NoEvent
    /\ everIds = {}
    /\ recycled = FALSE
    /\ wpc = "idle"
    /\ pending = <<>>
    /\ saved = <<>>
    /\ p_start = Txt(2024, 1, 15)
    /\ p_freq = "Mensuel"
    /\ p_today = Epoch
    /\ p_d = None
    /\ p_pc = "done"
    /\ p_ret = null

NormNext ==
    \/ NormMonthly /\ UNCHANGED <<svars, cvars, pvars>>
    \/ NormAnnual /\ UNCHANGED <<svars, cvars, pvars>>

SpecNormalize == NormStart /\ [][NormNext]_vars

\* The factor of a frequency as the divisor it stands for: 1 for Monthly, 1/3 for
\* Quarterly, 1/12 for Annual, and 1 for a value that is none of them.
FactorDivisor(freq) ==
    CASE freq = "Mensuel"     -> 1
      [] freq = "Trimestriel" -> 3
      [] freq = "Annuel"      -> 12
      [] OTHER                -> 1

\* m is cost / div rounded to a whole cent: no cent is nearer.
IsRounded(m, cost, div) ==
    LET diff == div * m - cost
    IN  2 * (IF diff < 0 THEN -diff ELSE diff) <= div

NormCase(cost, freq) == n_pc = "done" /\ n_cost = cost /\ n_freq = freq

\* C13: monthly_cost is cost x factor rounded to the cent and annual_cost is
\* monthly_cost x 12, with an unknown frequency taken as Monthly; 15.99 Monthly
\* gives 15.99 and 191.88, 120.00 Annual gives 10.00 and 120.00.
C13_Normalize ==
    /\ n_pc \in {"monthly", "done"} => IsRounded(n_monthly, n_cost, FactorDivisor(n_freq))
    /\ n_pc = "done" => n_annual = 12 * n_monthly
    /\ (n_pc = "done" /\ n_freq \notin FreqKeys) => n_monthly = n_cost
    /\ NormCase(1599, "Mensuel") => n_monthly = 1599 /\ n_annual = 19188
    /\ NormCase(12000, "Annuel") => n_monthly = 1000 /\ n_annual = 12000

\* 10.00 Quarterly: 3.33 a month and, the rounding applied at each step, 39.96 a year.
C13_Witness ==
    NormCase(1000, "Trimestriel") /\ n_monthly = 333 /\ n_annual = 3996

====
